---- MODULE Spec2Model ----
(***************************************************************************)
(* The graph layout engine of the Arc Raiders quest viewer:                *)
(* calculateLayout of src/js/app.js (lines 198-270), with its nested       *)
(* assignLevel, as a state machine.  One call of assignLevel is one step;  *)
(* the JavaScript call stack of the recursion is the variable stack.       *)
(***************************************************************************)
EXTENDS Integers, Sequences, FiniteSets, TLC

(* ---------------------------- bounds ----------------------------------- *)
\* Largest number of quests of an enumerated dataset.
NumQuests == 3
\* Largest number of prerequisite entries of an enumerated dataset.
MaxEdges == 5
\* Depth of the call stack at which the engine throws RangeError.
StackLimit == 5

(* ---------------------- program constants ------------------------------ *)
nodeSpacingX == 160
nodeSpacingY == 80
\* let maxAttempts = 10
SweepCap == 10

(* ------------------------------ ids ------------------------------------ *)
\* Quest ids are strings; the quest at position i of an enumerated dataset
\* has the i-th name of IdPool.
IdPool == <<"A", "B", "C", "D", "E", "G">>
\* A prerequisite id that names no quest of the dataset.
Unknown == "unknown"
\* Math.max() of no arguments is -Infinity: a value below every level.
NegInfinity == 0 - 1

VARIABLES
    data,           \* data.quests: sequence of [id, unlockMilestone, prerequisites]
    nodePositions,  \* module-level Map id -> {x, y}, as a function
    levels,         \* local Map id -> level, as the sequence of its entries in insertion order
    setLog,         \* the writes levels.set(id, level) of this call, oldest first
    processed,      \* local Set of ids
    stack,          \* frames [quest, i] of the running assignLevel calls, i = next child index
    pc,             \* position in calculateLayout
    ri,             \* index of roots.forEach
    si,             \* index of data.quests.forEach in the sweep
    maxAttempts,    \* local counter of the while loop
    result,         \* the returned { maxLevel, levelGroups }
    runs,           \* number of calls of calculateLayout so far
    saved           \* what the previous call left: [positions, result]

vars == <<data, nodePositions, levels, setLog, processed, stack, pc, ri, si, maxAttempts, result, runs, saved>>

(* --------------------------- helpers ----------------------------------- *)
Range(s) == {s[k] : k \in 1..Len(s)}

\* Array.prototype.includes
Includes(s, e) == \E k \in 1..Len(s) : s[k] = e

\* Math.max(...s)
RECURSIVE MathMax(_)
MathMax(s) ==
    IF Len(s) = 0 THEN NegInfinity
    ELSE LET m == MathMax(Tail(s)) IN IF Head(s) >= m THEN Head(s) ELSE m

QuestIds(d) == {d[k].id : k \in 1..Len(d)}

\* The quest record of an id of the dataset.
QuestOf(d, id) == d[CHOOSE k \in 1..Len(d) : d[k].id = id]

\* Map.prototype.has / get / set on the entry sequence of a Map.
MapHas(m, key) == \E k \in 1..Len(m) : m[k].key = key
MapGet(m, key) == m[CHOOSE k \in 1..Len(m) : m[k].key = key].val
\* Mutant of MapSet: setting an existing key moves its entry to the end.
MapSet_MoveToEnd(m, key, val) ==
    Append(SelectSeq(m, LAMBDA e : e.key # key), [key |-> key, val |-> val])

MapSet(m, key, val) ==
    IF MapHas(m, key)
    THEN [k \in 1..Len(m) |-> IF m[k].key = key THEN [key |-> key, val |-> val] ELSE m[k]]
    ELSE Append(m, [key |-> key, val |-> val])

MapKeys(m) == {m[k].key : k \in 1..Len(m)}

EmptyPositions == [id \in {} |-> [x |-> 0, y |-> 0]]
NoResult == [maxLevel |-> NegInfinity, levelGroups |-> <<>>]
NoSaved == [positions |-> EmptyPositions, result |-> NoResult]

(* ----------------------- calculateLayout ------------------------------- *)
\* const roots = data.quests.filter(q => q.unlockMilestone && q.prerequisites.length === 0)
Roots(d) == SelectSeq(d, LAMBDA q : q.unlockMilestone /\ Len(q.prerequisites) = 0)

\* Mutant of Children: the filter looks for the candidate's own id, not the
\* id of the quest being propagated.
Children_OwnId(d, id) == SelectSeq(d, LAMBDA q : Includes(q.prerequisites, q.id))

\* const children = data.quests.filter(q => q.prerequisites.includes(quest.id))
Children(d, id) == SelectSeq(d, LAMBDA q : Includes(q.prerequisites, id))

\* quest.prerequisites.map(p => levels.get(p)).filter(l => l !== undefined)
PrereqLevels(lv, quest) ==
    LET known == SelectSeq(quest.prerequisites, LAMBDA p : MapHas(lv, p))
    IN  [k \in 1..Len(known) |-> MapGet(lv, known[k])]

\* Mutant of ChildReady: a dependent is taken as soon as one of its
\* prerequisites has a level.
ChildReady_AnyPrereq(lv, child) == Len(PrereqLevels(lv, child)) > 0

\* if (prereqLevels.length === child.prerequisites.length)
ChildReady(lv, child) == Len(PrereqLevels(lv, child)) = Len(child.prerequisites)

\* Mutant of ReturnsEarly: a processed quest is never given a higher level.
ReturnsEarly_NeverRaise(lv, proc, id, level) == id \in proc

\* Mutant of ReturnsEarly: assignLevel has no guard and always writes.
ReturnsEarly_Never(lv, proc, id, level) == FALSE

\* the early return of assignLevel
ReturnsEarly(lv, proc, id, level) ==
    /\ id \in proc
    /\ MapHas(lv, id)
    /\ MapGet(lv, id) >= level

\* A call assignLevel(quest, level) made with the callers' frames stk: the
\* early return, or the two writes and the frame of the children loop.  A
\* call deeper than the stack allows throws out of calculateLayout.
Call(id, level, stk) ==
    IF ReturnsEarly(levels, processed, id, level)
    THEN /\ stack' = stk
         /\ UNCHANGED <<levels, setLog, processed, pc>>
    ELSE IF Len(stk) >= StackLimit
    THEN /\ pc' = "overflow"
         /\ stack' = stk
         /\ UNCHANGED <<levels, setLog, processed>>
    ELSE /\ levels' = MapSet(levels, id, level)
         /\ setLog' = Append(setLog, [key |-> id, val |-> level])
         /\ processed' = processed \cup {id}
         /\ stack' = Append(stk, [quest |-> id, i |-> 1])
         /\ UNCHANGED pc

\* Entry of calculateLayout: nodePositions.clear() and the fresh locals.
CalculateLayout ==
    /\ pc = "idle"
    /\ nodePositions' = EmptyPositions
    /\ levels' = <<>>
    /\ setLog' = <<>>
    /\ processed' = {}
    /\ stack' = <<>>
    /\ ri' = 1
    /\ pc' = "roots"
    /\ runs' = runs + 1
    /\ UNCHANGED <<data, si, maxAttempts, result, saved>>

\* roots.forEach(root => assignLevel(root, 0)): one root
RootStep ==
    /\ pc = "roots"
    /\ stack = <<>>
    /\ ri <= Len(Roots(data))
    /\ ri' = ri + 1
    /\ Call(Roots(data)[ri].id, 0, <<>>)
    /\ UNCHANGED <<data, nodePositions, si, maxAttempts, result, runs, saved>>

\* Mutant of RootsDone: maxAttempts keeps the value the previous call left.
RootsDone_NoReset ==
    /\ pc = "roots"
    /\ stack = <<>>
    /\ ri > Len(Roots(data))
    /\ pc' = "while"
    /\ UNCHANGED <<data, nodePositions, levels, setLog, processed, stack, ri, si, maxAttempts, result, runs, saved>>

\* the end of roots.forEach and let maxAttempts = 10
RootsDone ==
    /\ pc = "roots"
    /\ stack = <<>>
    /\ ri > Len(Roots(data))
    /\ maxAttempts' = SweepCap
    /\ pc' = "while"
    /\ UNCHANGED <<data, nodePositions, levels, setLog, processed, stack, ri, si, result, runs, saved>>

\* children.forEach(child => ...): one child of the innermost running call
ChildStep ==
    /\ pc \in {"roots", "sweep"}
    /\ stack # <<>>
    /\ LET top == stack[Len(stack)]
           kids == Children(data, top.quest)
       IN  /\ top.i <= Len(kids)
           /\ LET child == kids[top.i]
                  stk == [stack EXCEPT ![Len(stack)].i = top.i + 1]
              IN  IF ChildReady(levels, child)
                  THEN Call(child.id, MathMax(PrereqLevels(levels, child)) + 1, stk)
                  ELSE /\ stack' = stk
                       /\ UNCHANGED <<levels, setLog, processed, pc>>
    /\ UNCHANGED <<data, nodePositions, ri, si, maxAttempts, result, runs, saved>>

\* the end of children.forEach: the innermost call returns
Return ==
    /\ pc \in {"roots", "sweep"}
    /\ stack # <<>>
    /\ stack[Len(stack)].i > Len(Children(data, stack[Len(stack)].quest))
    /\ stack' = SubSeq(stack, 1, Len(stack) - 1)
    /\ UNCHANGED <<data, nodePositions, levels, setLog, processed, pc, ri, si, maxAttempts, result, runs, saved>>

\* Mutant of WhileTest: the loop tests maxAttempts-- >= 0.
WhileTest_OffByOne ==
    /\ pc = "while"
    /\ IF Cardinality(processed) < Len(data)
       THEN /\ maxAttempts' = maxAttempts - 1
            /\ IF maxAttempts >= 0
               THEN pc' = "sweep" /\ si' = 1
               ELSE pc' = "place" /\ UNCHANGED si
       ELSE /\ pc' = "place"
            /\ UNCHANGED <<maxAttempts, si>>
    /\ UNCHANGED <<data, nodePositions, levels, setLog, processed, stack, ri, result, runs, saved>>

\* while (processed.size < data.quests.length && maxAttempts-- > 0)
WhileTest ==
    /\ pc = "while"
    /\ IF Cardinality(processed) < Len(data)
       THEN /\ maxAttempts' = maxAttempts - 1
            /\ IF maxAttempts > 0
               THEN pc' = "sweep" /\ si' = 1
               ELSE pc' = "place" /\ UNCHANGED si
       ELSE /\ pc' = "place"
            /\ UNCHANGED <<maxAttempts, si>>
    /\ UNCHANGED <<data, nodePositions, levels, setLog, processed, stack, ri, result, runs, saved>>

\* Mutant of SweepEligible: the sweep takes every quest that is not processed.
SweepEligible_Always(lv, q) == TRUE

\* if (prereqLevels.length > 0 || q.prerequisites.length === 0)
SweepEligible(lv, q) == Len(PrereqLevels(lv, q)) > 0 \/ Len(q.prerequisites) = 0

\* const level = prereqLevels.length > 0 ? Math.max(...prereqLevels) + 1 : 0
SweepLevel(lv, q) ==
    IF Len(PrereqLevels(lv, q)) > 0 THEN MathMax(PrereqLevels(lv, q)) + 1 ELSE 0

\* data.quests.forEach(q => ...) of one pass: one quest
SweepStep ==
    /\ pc = "sweep"
    /\ stack = <<>>
    /\ si <= Len(data)
    /\ si' = si + 1
    /\ LET q == data[si]
       IN  IF q.id \notin processed /\ SweepEligible(levels, q)
           THEN Call(q.id, SweepLevel(levels, q), <<>>)
           ELSE UNCHANGED <<levels, setLog, processed, stack, pc>>
    /\ UNCHANGED <<data, nodePositions, ri, maxAttempts, result, runs, saved>>

\* the end of one pass
SweepPassDone ==
    /\ pc = "sweep"
    /\ stack = <<>>
    /\ si > Len(data)
    /\ pc' = "while"
    /\ UNCHANGED <<data, nodePositions, levels, setLog, processed, stack, ri, si, maxAttempts, result, runs, saved>>

\* levels.forEach((level, id) => { ...levelGroups.get(level).push(id) }): the
\* Map level -> ids, as the sequence of its entries in insertion order
RECURSIVE LevelGroups(_)
LevelGroups(lv) ==
    IF Len(lv) = 0 THEN <<>>
    ELSE LET before == LevelGroups(SubSeq(lv, 1, Len(lv) - 1))
             e == lv[Len(lv)]
         IN  IF MapHas(before, e.val)
             THEN MapSet(before, e.val, Append(MapGet(before, e.val), e.key))
             ELSE MapSet(before, e.val, <<e.key>>)

\* Mutant of StartX: the row starts at -totalWidth.
StartX_NotHalved(count) == 0 - ((count - 1) * nodeSpacingX)

\* const startX = -totalWidth / 2, totalWidth = (count - 1) * CONFIG.nodeSpacingX
StartX(count) == 0 - (((count - 1) * nodeSpacingX) \div 2)

\* the position nodePositions.set gives the i-th id (from 0) of a group
PositionAt(count, i, level) ==
    [x |-> StartX(count) + i * nodeSpacingX, y |-> level * nodeSpacingY]

\* levelGroups.forEach((ids, level) => ids.forEach((id, i) => nodePositions.set(...)))
RECURSIVE PlaceGroups(_, _)
PlaceGroups(groups, pos) ==
    IF Len(groups) = 0 THEN pos
    ELSE LET g == Head(groups)
             ids == g.val
             here == [id \in Range(ids) |->
                        PositionAt(Len(ids), (CHOOSE k \in 1..Len(ids) : ids[k] = id) - 1, g.key)]
             merged == [id \in DOMAIN pos \cup Range(ids) |->
                        IF id \in Range(ids) THEN here[id] ELSE pos[id]]
         IN  PlaceGroups(Tail(groups), merged)

\* const maxLevel = Math.max(...levelGroups.keys())
MaxLevel(groups) == MathMax([k \in 1..Len(groups) |-> groups[k].key])

\* grouping, placement and the return
Place ==
    /\ pc = "place"
    /\ LET groups == LevelGroups(levels)
       IN  /\ nodePositions' = PlaceGroups(groups, nodePositions)
           /\ result' = [maxLevel |-> MaxLevel(groups), levelGroups |-> groups]
    /\ pc' = "done"
    /\ UNCHANGED <<data, levels, setLog, processed, stack, ri, si, maxAttempts, runs, saved>>

(* ----------------------------- datasets -------------------------------- *)
\* The ids of a set, as a sequence in the order of IdPool (Unknown last).
RECURSIVE SeqOfIds(_, _)
SeqOfIds(S, k) ==
    IF k > Len(IdPool) THEN (IF Unknown \in S THEN <<Unknown>> ELSE <<>>)
    ELSE (IF IdPool[k] \in S THEN <<IdPool[k]>> ELSE <<>>) \o SeqOfIds(S, k + 1)

\* The dataset of n quests with the prerequisite entries E (pairs <<quest,
\* prerequisite>>) and the milestone flags M.
Dataset(n, E, M) ==
    [k \in 1..n |->
        [id |-> IdPool[k],
         unlockMilestone |-> IdPool[k] \in M,
         prerequisites |-> SeqOfIds({e[2] : e \in {f \in E : f[1] = IdPool[k]}}, 1)]]

Names(n) == {IdPool[k] : k \in 1..n}

\* The sets of at most k of the pairs P.
RECURSIVE EdgeSets(_, _)
EdgeSets(P, k) ==
    IF k = 0 THEN {{}}
    ELSE LET smaller == EdgeSets(P, k - 1)
         IN  smaller \cup {F \cup {p} : F \in smaller, p \in P}

\* Datasets of up to NumQuests quests with unique ids and up to MaxEdges
\* prerequisite entries, which may form cycles and self-loops and may name
\* the unknown id.  unlockMilestone is read only together with
\* prerequisites.length === 0 (the roots filter), so it is enumerated for the
\* quests without prerequisites.
IsDataset(d) ==
    \E n \in 1..NumQuests :
        \E E \in EdgeSets(Names(n) \X (Names(n) \cup {Unknown}), MaxEdges) :
            \E M \in SUBSET (Names(n) \ {e[1] : e \in E}) :
                d = Dataset(n, E, M)

Init ==
    /\ IsDataset(data)
    /\ nodePositions = EmptyPositions
    /\ levels = <<>>
    /\ setLog = <<>>
    /\ processed = {}
    /\ stack = <<>>
    /\ pc = "idle"
    /\ ri = 1
    /\ si = 1
    /\ maxAttempts = SweepCap
    /\ result = NoResult
    /\ runs = 0
    /\ saved = NoSaved

Next ==
    \/ CalculateLayout
    \/ RootStep
    \/ RootsDone
    \/ ChildStep
    \/ Return
    \/ WhileTest
    \/ SweepStep
    \/ SweepPassDone
    \/ Place

Spec == Init /\ [][Next]_vars

(* ------------------- a second call on the same data -------------------- *)
\* What a finished call left behind.
Snapshot == [positions |-> nodePositions, result |-> result]

\* The caller keeps what the first call produced and calls calculateLayout
\* a second time on the unchanged quest set.
Recall ==
    /\ pc = "done"
    /\ runs = 1
    /\ saved' = Snapshot
    /\ pc' = "idle"
    /\ UNCHANGED <<data, nodePositions, levels, setLog, processed, stack, ri, si, maxAttempts, result, runs>>

NextTwice == Next \/ Recall

SpecTwice == Init /\ [][NextTwice]_vars

(* -------------- the same data without its unknown ids ------------------ *)
\* The quest set with every id that names no quest deleted from every
\* prerequisite list.
Strip(d) ==
    [k \in 1..Len(d) |->
        [d[k] EXCEPT !.prerequisites = SelectSeq(@, LAMBDA p : p \in QuestIds(d))]]

\* data = await res.json() with the stripped quest set, after a first layout
\* of the quest set as given.
LoadStripped ==
    /\ pc = "done"
    /\ runs = 1
    /\ Strip(data) # data
    /\ saved' = Snapshot
    /\ data' = Strip(data)
    /\ pc' = "idle"
    /\ UNCHANGED <<nodePositions, levels, setLog, processed, stack, ri, si, maxAttempts, result, runs>>

NextStrip == Next \/ LoadStripped

SpecStrip == Init /\ [][NextStrip]_vars

(* ------------------------- the diamond dataset ------------------------- *)
\* R, M1 (after R), M2 (after R), F (after M1 and M2), in this order, with
\* the milestone flags M.
Diamond(M) ==
    << [id |-> "R",  unlockMilestone |-> "R" \in M,  prerequisites |-> <<>>],
       [id |-> "M1", unlockMilestone |-> "M1" \in M, prerequisites |-> <<"R">>],
       [id |-> "M2", unlockMilestone |-> "M2" \in M, prerequisites |-> <<"R">>],
       [id |-> "F",  unlockMilestone |-> "F" \in M,  prerequisites |-> <<"M1", "M2">>] >>

InitDiamond ==
    /\ \E M \in SUBSET {"R", "M1", "M2", "F"} : data = Diamond(M)
    /\ nodePositions = EmptyPositions
    /\ levels = <<>>
    /\ setLog = <<>>
    /\ processed = {}
    /\ stack = <<>>
    /\ pc = "idle"
    /\ ri = 1
    /\ si = 1
    /\ maxAttempts = SweepCap
    /\ result = NoResult
    /\ runs = 0
    /\ saved = NoSaved

SpecDiamond == InitDiamond /\ [][Next]_vars

(* ------------------ a quest raised into a level ------------------------ *)
\* A (after B and an unknown id), B, C (after A), D (after A and B), in this
\* order, with the milestone flags M.
RaisedQuest(M) ==
    << [id |-> "A", unlockMilestone |-> "A" \in M, prerequisites |-> <<"B", Unknown>>],
       [id |-> "B", unlockMilestone |-> "B" \in M, prerequisites |-> <<>>],
       [id |-> "C", unlockMilestone |-> "C" \in M, prerequisites |-> <<"A">>],
       [id |-> "D", unlockMilestone |-> "D" \in M, prerequisites |-> <<"A", "B">>] >>

InitRaised ==
    /\ \E M \in SUBSET {"A", "B", "C", "D"} : data = RaisedQuest(M)
    /\ nodePositions = EmptyPositions
    /\ levels = <<>>
    /\ setLog = <<>>
    /\ processed = {}
    /\ stack = <<>>
    /\ pc = "idle"
    /\ ri = 1
    /\ si = 1
    /\ maxAttempts = SweepCap
    /\ result = NoResult
    /\ runs = 0
    /\ saved = NoSaved

\* The enumerated quest sets together with the four-quest ones above.
InitOrder == Init \/ InitRaised

SpecOrder == InitOrder /\ [][Next]_vars

(* ---------------------- vocabulary of the claims ----------------------- *)
HasLevel(id) == MapHas(levels, id)
LevelOf(id) == MapGet(levels, id)
Placed(id) == id \in DOMAIN nodePositions
Quests == Range(data)
Prereqs(q) == Range(q.prerequisites)

\* The quests that q can reach along prerequisite entries, q's prerequisites first.
RECURSIVE Ancestors(_, _, _)
Ancestors(d, S, n) ==
    IF n = 0 THEN S
    ELSE Ancestors(d, S \cup UNION {Range(QuestOf(d, id).prerequisites) \cap QuestIds(d) : id \in S}, n - 1)

Acyclic(d) ==
    \A k \in 1..Len(d) :
        d[k].id \notin Ancestors(d, Range(d[k].prerequisites) \cap QuestIds(d), Len(d))

(* ------------------------------ claims --------------------------------- *)
AllPrereqsLevelled(q) == \A p \in Prereqs(q) : HasLevel(p)
SomePrereqLevelled(q) == \E p \in Prereqs(q) : HasLevel(p)
MaxPrereqLevel(q) == MathMax(PrereqLevels(levels, q))

\* C1: when calculateLayout has finished, the keys of nodePositions are
\* exactly the quest ids of the dataset (no quest is dropped).
C1_EveryQuestPlaced ==
    pc = "done" => DOMAIN nodePositions = QuestIds(data)

\* C2: calculateLayout terminates: the recursion of assignLevel never runs
\* deeper than the number of quests and never exhausts the call stack.
C2_RecursionBounded ==
    /\ pc # "overflow"
    /\ Len(stack) <= Len(data)

\* C3: on an acyclic quest set, after calculateLayout every prerequisite
\* entry whose two ends were placed has y(quest) > y(prerequisite).
C3_TopologicalOnAcyclic ==
    (pc = "done" /\ Acyclic(data)) =>
        \A q \in Quests : \A p \in Prereqs(q) :
            (Placed(q.id) /\ Placed(p)) => nodePositions[q.id].y > nodePositions[p].y

C5_UnknownOnlyPlaced ==
    pc = "done" =>
        \A q \in Quests :
            (Len(q.prerequisites) > 0 /\ Prereqs(q) \cap QuestIds(data) = {}) =>
                (Placed(q.id) /\ nodePositions[q.id].y = 0)

\* C6: the layout of a quest set equals the layout of the quest set with
\* every unknown id deleted from every prerequisite list.
C6_UnknownIsNoEdge ==
    (pc = "done" /\ runs = 2) => nodePositions = saved.positions

\* C7: with R a milestone the diamond ends with R at (0, 0), M1 and M2 at
\* (-nodeSpacingX/2, nodeSpacingY) and (+nodeSpacingX/2, nodeSpacingY), F at
\* (0, 2*nodeSpacingY), levels 0, 1, 1, 2, and F has no level as long as M2
\* has none.
C7_Diamond ==
    data[1].unlockMilestone =>
        /\ HasLevel("F") => (HasLevel("M2") /\ LevelOf("F") = 2)
        /\ pc = "done" =>
              /\ levels = << [key |-> "R", val |-> 0], [key |-> "M1", val |-> 1],
                             [key |-> "M2", val |-> 1], [key |-> "F", val |-> 2] >>
              /\ DOMAIN nodePositions = {"R", "M1", "M2", "F"}
              /\ nodePositions["R"] = [x |-> 0, y |-> 0]
              /\ 2 * nodePositions["M1"].x = 0 - nodeSpacingX
              /\ 2 * nodePositions["M2"].x = nodeSpacingX
              /\ nodePositions["M1"].y = nodeSpacingY
              /\ nodePositions["M2"].y = nodeSpacingY
              /\ nodePositions["F"] = [x |-> 0, y |-> 2 * nodeSpacingY]
              /\ result.maxLevel = 2

\* C7 witness: the layout of the diamond with R a milestone has finished
\* and placed F.
C7_Witness ==
    /\ pc = "done"
    /\ data[1].unlockMilestone
    /\ Placed("F")

RECURSIVE SumX(_)
SumX(ids) == IF Len(ids) = 0 THEN 0 ELSE nodePositions[Head(ids)].x + SumX(Tail(ids))

\* C8: in every level of n placed quests q_0..q_{n-1}, 2*x(q_i) =
\* -(n-1)*nodeSpacingX + 2*i*nodeSpacingX; neighbours are nodeSpacingX
\* apart, the row spans (n-1)*nodeSpacingX, its x values sum to 0 and no
\* two of its quests share an x.
C8_RowCentred ==
    pc = "done" =>
        \A g \in 1..Len(result.levelGroups) :
            LET ids == result.levelGroups[g].val
                n == Len(ids)
                x(i) == nodePositions[ids[i + 1]].x
            IN  /\ \A i \in 0..(n - 1) :
                      2 * x(i) = (0 - (n - 1) * nodeSpacingX) + 2 * i * nodeSpacingX
                /\ \A i \in 0..(n - 2) : x(i + 1) - x(i) = nodeSpacingX
                /\ x(n - 1) - x(0) = (n - 1) * nodeSpacingX
                /\ SumX(ids) = 0
                /\ \A i, j \in 0..(n - 1) : i # j => x(i) # x(j)

\* C8 witness: a finished layout with a level of three quests.
C8_Witness ==
    /\ pc = "done"
    /\ \E g \in 1..Len(result.levelGroups) : Len(result.levelGroups[g].val) >= 3

\* C9: a second call of calculateLayout on the unchanged quest set, started
\* with the positions of the first call in nodePositions, ends with the same
\* ids at the same (x, y) and returns the same maxLevel and level groups.
C9_Idempotent ==
    (pc = "done" /\ runs = 2) =>
        /\ nodePositions = saved.positions
        /\ result = saved.result

\* C9 witness: a second call has finished on a quest set that left a quest
\* without a level and placed another one in the sweep.
C9_Witness ==
    /\ pc = "done"
    /\ runs = 2
    /\ maxAttempts < 0
    /\ DOMAIN nodePositions # {}
    /\ \E q \in Quests : ~Placed(q.id)

\* C10 as claimed: every quest that has a level has a level for each of its
\* prerequisites.
C10_AllPrereqsLevelled ==
    \A q \in Quests : HasLevel(q.id) => AllPrereqsLevelled(q)

\* C10 as amended: during the rooted propagation every quest that has a
\* level has a level for each of its prerequisites; a quest reached through
\* the dependents loop of assignLevel has a level for each of its
\* prerequisites; and at every point a quest that has a level has no
\* prerequisites or a level for at least one of them.
C10_LevelledOnlyWhenReady ==
    /\ pc = "roots" => C10_AllPrereqsLevelled
    /\ \A k \in 2..Len(stack) : AllPrereqsLevelled(QuestOf(data, stack[k].quest))
    /\ \A q \in Quests :
          HasLevel(q.id) => (Len(q.prerequisites) = 0 \/ SomePrereqLevelled(q))

\* C10 witness: the sweep has given a level to a quest one of whose
\* prerequisites is a quest of the dataset that still has no level.
C10_Witness ==
    /\ pc = "sweep"
    /\ \E q \in Quests : \E p \in Prereqs(q) \cap QuestIds(data) :
          HasLevel(q.id) /\ ~HasLevel(p)

\* The call assignLevel(id, level) that the next step makes, if it makes
\* one: from the dependents loop, from roots.forEach or from the sweep.
Calling ==
    IF pc \in {"roots", "sweep"} /\ stack # <<>>
    THEN LET top == stack[Len(stack)]
             kids == Children(data, top.quest)
         IN  IF top.i <= Len(kids) /\ ChildReady(levels, kids[top.i])
             THEN {[id |-> kids[top.i].id,
                    level |-> MathMax(PrereqLevels(levels, kids[top.i])) + 1]}
             ELSE {}
    ELSE IF pc = "roots" /\ ri <= Len(Roots(data))
    THEN {[id |-> Roots(data)[ri].id, level |-> 0]}
    ELSE IF /\ pc = "sweep"
            /\ si <= Len(data)
            /\ data[si].id \notin processed
            /\ SweepEligible(levels, data[si])
    THEN {[id |-> data[si].id, level |-> SweepLevel(levels, data[si])]}
    ELSE {}

RootedPassOver == pc \notin {"idle", "roots"}
FirstPassOver ==
    \/ pc = "while" /\ maxAttempts < SweepCap
    \/ pc = "sweep" /\ maxAttempts < SweepCap - 1
    \/ pc \in {"place", "done"}
Ended == pc \in {"done", "overflow"}

\* C12: a quest without prerequisites never has a level other than 0; if
\* flagged unlockMilestone it has level 0 once the rooted pass is over; if
\* not flagged it has no level during the rooted pass and has level 0 once
\* the first pass of the sweep is over; when calculateLayout has ended it
\* has level 0, and y = 0 in nodePositions when it returned.
C12_NoPrereqsAtLevelZero ==
    \A q \in Quests :
        Len(q.prerequisites) = 0 =>
            /\ HasLevel(q.id) => LevelOf(q.id) = 0
            /\ (q.unlockMilestone /\ RootedPassOver) => HasLevel(q.id)
            /\ (~q.unlockMilestone /\ pc = "roots") => ~HasLevel(q.id)
            /\ FirstPassOver => HasLevel(q.id)
            /\ Ended => HasLevel(q.id)
            /\ pc = "done" => (Placed(q.id) /\ nodePositions[q.id].y = 0)

\* C13: a pass of the sweep starts only while a quest has no level, each
\* start takes one of the SweepCap attempts and none starts when they are
\* used up, so a run has at most SweepCap passes; when the rooted pass gave
\* every quest a level the loop goes to the placement without a pass.
C13_AtMostTenPasses ==
    [][ /\ pc \in {"while", "sweep"} =>
              (maxAttempts <= SweepCap /\ maxAttempts' <= maxAttempts)
        /\ pc = "sweep" => (maxAttempts >= 0 /\ SweepCap - maxAttempts \in 1..SweepCap)
        /\ (pc # "sweep" /\ pc' = "sweep") =>
              /\ \E q \in Quests : ~HasLevel(q.id)
              /\ maxAttempts' = maxAttempts - 1
              /\ maxAttempts' >= 0
        /\ (pc = "while" /\ \A q \in Quests : HasLevel(q.id)) =>
              (pc' = "place" /\ maxAttempts' = maxAttempts)
        /\ (pc = "roots" /\ pc' = "while") => maxAttempts' = SweepCap
        /\ pc \in {"place", "done"} => pc' \notin {"while", "sweep"}
      ]_vars

\* C13 witness: the last pass the cap allows is running.
C13_Witness ==
    /\ pc = "sweep"
    /\ SweepCap - maxAttempts = SweepCap
    /\ si > 1

\* The positions in setLog of the first and of the last write of a quest's level.
FirstSet(id) == CHOOSE k \in 1..Len(setLog) :
                    setLog[k].key = id /\ \A j \in 1..(k - 1) : setLog[j].key # id
LastSet(id) == CHOOSE k \in 1..Len(setLog) :
                    setLog[k].key = id /\ \A j \in (k + 1)..Len(setLog) : setLog[j].key # id
SameRow(a, b) ==
    /\ a # b
    /\ Placed(a)
    /\ Placed(b)
    /\ nodePositions[a].y = nodePositions[b].y

\* C14 as claimed: of two quests of one level, the one that received the
\* level it ends with earlier is placed further left.
C14_OrderOfFinalLevel ==
    pc = "done" =>
        \A a, b \in QuestIds(data) :
            (SameRow(a, b) /\ LastSet(a) < LastSet(b)) =>
                nodePositions[a].x < nodePositions[b].x

\* C14 as amended: of two quests of one level, the one that received its
\* first level earlier is placed further left, also when it was raised into
\* the level after the other one got there.
C14_OrderOfFirstLevel ==
    pc = "done" =>
        \A a, b \in QuestIds(data) :
            (SameRow(a, b) /\ FirstSet(a) < FirstSet(b)) =>
                nodePositions[a].x < nodePositions[b].x

\* C14 witness: a finished layout with two quests on one level, the first
\* of which got its first level before the second and was raised into the
\* level after the second had it.
C14_Witness ==
    /\ pc = "done"
    /\ \E a, b \in QuestIds(data) :
          /\ SameRow(a, b)
          /\ FirstSet(a) < FirstSet(b)
          /\ LastSet(a) > LastSet(b)

\* Every prerequisite id names a quest of the dataset and no quest is
\* among its own direct or indirect prerequisites.
WellFormed(d) ==
    /\ \A k \in 1..Len(d) : Range(d[k].prerequisites) \subseteq QuestIds(d)
    /\ Acyclic(d)

\* C15: on an acyclic quest set without unknown ids the recursion never
\* exhausts the stack nor runs deeper than the number of quests, no level
\* reaches the number of quests, the sweep has at most one pass, after which
\* every quest has a level, and the finished layout has one entry per quest.
C15_WellFormedInOnePass ==
    WellFormed(data) =>
        /\ pc # "overflow"
        /\ Len(stack) <= Len(data)
        /\ \A q \in Quests : HasLevel(q.id) => LevelOf(q.id) < Len(data)
        /\ pc = "sweep" => maxAttempts = SweepCap - 1
        /\ FirstPassOver => \A q \in Quests : HasLevel(q.id)
        /\ pc = "done" =>
              /\ DOMAIN nodePositions = QuestIds(data)
              /\ maxAttempts \in {SweepCap, SweepCap - 1}

\* C15 witness: a finished layout of a rootless chain of three quests
\* given dependents first.
C15_Witness ==
    /\ pc = "done"
    /\ WellFormed(data)
    /\ Len(Roots(data)) = 0
    /\ Len(data) = 3
    /\ Len(data[1].prerequisites) > 0
    /\ \E q \in Quests : HasLevel(q.id) /\ LevelOf(q.id) = 2

====
